---- MODULE Spec2Model ----
(***************************************************************************)
(* Model of the history pipeline of xMarket: the candle normalizer, the    *)
(* merge-by-date, the coverage checker and the per-symbol fallback         *)
(* orchestrator of scripts/history.py (close-only) and                     *)
(* scripts/history_ohlc.py (candles).                                      *)
(*                                                                         *)
(* Dates are day numbers: the day number d stands for the ISO string of    *)
(* that calendar day, so that the string order the code sorts by is the    *)
(* order of the numbers.  NoDate stands for a "date" that is not a string. *)
(* Prices are small integers standing for finite floats.                   *)
(***************************************************************************)
EXTENDS Integers, Sequences, FiniteSets, TLC

VARIABLES
  variant,      \* "close": scripts/history.py, "ohlc": scripts/history_ohlc.py
  today,        \* datetime.now(timezone.utc).date(), as a day number
  mergeCall,    \* a call of merge_history: its arguments, result, re-merge
  candleCall,   \* a call of build_candle: its arguments and result
  coverCall,    \* a call of coverage_ok: its arguments and result
  env,          \* main: use_worker, token, av_key, from the environment
  disk,         \* OUT_DIR: for every symbol, whether {sym}.json exists, its data
  idx,          \* main: position of the for loop in tickers
  processed,    \* main: processed
  pc,           \* main: the next step of the loop body
  existing,     \* main: existing
  fresh,        \* main: fresh
  source,       \* main: source
  status,       \* how the loop body ended for the current symbol
  calls,        \* the adapters invoked for the current symbol, with their results
  wrote,        \* whether the current symbol's file was written
  before,       \* the current symbol's file as it was when loaded
  rested,       \* no provider was asked since main started or last slept
  adapterCall,  \* a call of an adapter, request by request
  quotes,       \* scripts/quotes.py: data/quotes.json and public/quotes.json
  qrun,         \* scripts/quotes.py: a run of main
  everQuoted,   \* the symbols a persisted quotes mapping has held a price for
  db,           \* stock_market_history and the loads made into it
  checkRun,     \* scripts/check_history.py: a run of main
  batchCall     \* scripts/history_ohlc.py: main's slicing of the ticker list

runVars == <<env, disk, idx, processed, pc, existing, fresh, source, status,
             calls, wrote, before, rested>>

toolVars == <<db, checkRun, batchCall>>

auxVars == <<adapterCall, quotes, qrun, everQuoted, db, checkRun, batchCall>>

vars == <<variant, today, mergeCall, candleCall, coverCall, env, disk, idx,
          processed, pc, existing, fresh, source, status, calls, wrote, before,
          rested, adapterCall, quotes, qrun, everQuoted, db, checkRun,
          batchCall>>

----------------------------------------------------------------------------
(* Bounds of the model *)

MaxDate == 2          \* merge inputs use the dates 1..MaxDate
MaxVal == 2           \* prices are 1..MaxVal
MaxTotal == 3         \* Len(old) + Len(new) of a merge call
TodayBase == 700      \* "today" ranges over the week TodayBase..TodayBase+6
MaxLag == 3           \* a series ends up to MaxLag days before today, or a week
MaxRuns == 2          \* runs of the quote snapshotter, one after the other

----------------------------------------------------------------------------
(* JSON values as the code sees them *)

Variants == {"close", "ohlc"}

NoDate == 0

\* a value that is missing, null, or of a type float() rejects with TypeError
None == [k |-> "none", v |-> 0]
\* a string float() rejects with ValueError
Text == [k |-> "text", v |-> 0]
\* a float that is nan or +-inf
NonFinite == [k |-> "nonfinite", v |-> 0]
\* a finite int or float
Num(n) == [k |-> "num", v |-> n]
\* a string float() parses to a finite float
NumText(n) == [k |-> "numtext", v |-> n]

Max2(a, b) == IF a >= b THEN a ELSE b
Min2(a, b) == IF a <= b THEN a ELSE b

Rec(d, o, h, l, c) == [date |-> d, open |-> o, high |-> h, low |-> l, close |-> c]

\* the value None returned in place of a candle
Rejected == Rec(NoDate, None, None, None, None)

\* a close-only point {"date": d, "close": c}: the other keys are missing
Point(d, c) == Rec(d, None, None, None, c)

----------------------------------------------------------------------------
(* Candle normalizer, scripts/history_ohlc.py *)

safe_float(value) ==
  IF value.k \in {"num", "numtext"} THEN Num(value.v)   \* float(value), finite
  ELSE None              \* TypeError, ValueError, or not math.isfinite(f)

build_candle_noforce(date, open_val, high_val, low_val, close_val) ==
  IF date = NoDate THEN Rejected
  ELSE
    LET close_f == safe_float(close_val) IN
    IF close_f = None THEN Rejected
    ELSE
      LET open_0 == safe_float(open_val)
          high_0 == safe_float(high_val)
          low_0 == safe_float(low_val)
          open_f == IF open_0 = None THEN close_f.v ELSE open_0.v
          high_1 == IF high_0 = None THEN Max2(open_f, close_f.v) ELSE high_0.v
          low_1 == IF low_0 = None THEN Min2(open_f, close_f.v) ELSE low_0.v
          swap == low_1 > high_1
      IN Rec(date, Num(open_f),
             Num(IF swap THEN low_1 ELSE high_1),
             Num(IF swap THEN high_1 ELSE low_1), close_f)

build_candle_keepclose(date, open_val, high_val, low_val, close_val) ==
  IF date = NoDate THEN Rejected
  ELSE
    LET close_0 == safe_float(close_val)
        open_0 == safe_float(open_val)
        close_f == IF close_0 = None THEN open_0 ELSE close_0
    IN
    IF close_f = None THEN Rejected
    ELSE
      LET high_0 == safe_float(high_val)
          low_0 == safe_float(low_val)
          open_f == IF open_0 = None THEN close_f.v ELSE open_0.v
          high_1 == IF high_0 = None THEN Max2(open_f, close_f.v) ELSE high_0.v
          low_1 == IF low_0 = None THEN Min2(open_f, close_f.v) ELSE low_0.v
          high_2 == Max2(high_1, Max2(open_f, close_f.v))
          low_2 == Min2(low_1, Min2(open_f, close_f.v))
          swap == low_2 > high_2
      IN Rec(date, Num(open_f),
             Num(IF swap THEN low_2 ELSE high_2),
             Num(IF swap THEN high_2 ELSE low_2), close_f)

build_candle(date, open_val, high_val, low_val, close_val) ==
  IF date = NoDate THEN Rejected              \* not isinstance(date, str)
  ELSE
    LET close_f == safe_float(close_val) IN
    IF close_f = None THEN Rejected
    ELSE
      LET open_0 == safe_float(open_val)
          high_0 == safe_float(high_val)
          low_0 == safe_float(low_val)
          open_f == IF open_0 = None THEN close_f.v ELSE open_0.v
          high_1 == IF high_0 = None THEN Max2(open_f, close_f.v) ELSE high_0.v
          low_1 == IF low_0 = None THEN Min2(open_f, close_f.v) ELSE low_0.v
          high_2 == Max2(high_1, Max2(open_f, close_f.v))
          low_2 == Min2(low_1, Min2(open_f, close_f.v))
          swap == low_2 > high_2
      IN Rec(date, Num(open_f),
             Num(IF swap THEN low_2 ELSE high_2),
             Num(IF swap THEN high_2 ELSE low_2), close_f)

----------------------------------------------------------------------------
(* Merge-by-date *)

\* A dict keyed by date is the sequence of its values in insertion order,
\* every value carrying its key in .date.

EmptyDict == <<>>

\* the dict m after m[d] = v
DictSet(m, d, v) ==
  IF \E i \in 1..Len(m) : m[i].date = d
  THEN [m EXCEPT ![CHOOSE i \in 1..Len(m) : m[i].date = d] = v]
  ELSE Append(m, v)

\* the ascending sequence of the numbers of S
SortedKeys(S) ==
  IF S = {} THEN <<>>
  ELSE LET lo == CHOOSE x \in S : \A y \in S : x <= y
           hi == CHOOSE x \in S : \A y \in S : x >= y
       IN SelectSeq([i \in 1..(hi - lo + 1) |-> lo + i - 1], LAMBDA x : x \in S)

\* list.sort(key=lambda x: x["date"]): a stable sort by date; a list already
\* in order is its own sort, any other is partitioned around the date of its
\* middle element
RECURSIVE SortByDate(_)
SortByDate(arr) ==
  IF \A i \in 1..(Len(arr) - 1) : arr[i].date <= arr[i + 1].date THEN arr
  ELSE LET p == arr[(Len(arr) + 1) \div 2].date
       IN SortByDate(SelectSeq(arr, LAMBDA x : x.date < p))
            \o SelectSeq(arr, LAMBDA x : x.date = p)
            \o SortByDate(SelectSeq(arr, LAMBDA x : x.date > p))

\* [m[d] for d in sorted(m.keys())]: the values in ascending order of key
SortedValues(m) == SortByDate(m)

\* scripts/history.py: the body of "for it in arr or []"
merge_step_close(m, it) ==
  LET d == it.date
      c == it.close
  IN IF d # NoDate /\ c.k \in {"num", "nonfinite"}   \* str date, int or float
     THEN DictSet(m, d, Point(d, c))
     ELSE m

\* the one element of a singleton set: Only({F(x) : x \in {e}}) is F(e), with
\* e computed once, before F
Only(S) == CHOOSE x \in S : TRUE

\* the loop over arr[lo..hi], in order: the first half, then the second from
\* the dict the first half has built
RECURSIVE merge_loop_close(_, _, _, _)
merge_loop_close(m, arr, lo, hi) ==
  IF lo > hi THEN m
  ELSE IF lo = hi THEN merge_step_close(m, arr[lo])
  ELSE LET mid == (lo + hi) \div 2
       IN Only({merge_loop_close(half, arr, mid + 1, hi) :
                  half \in {merge_loop_close(m, arr, lo, mid)}})

merge_history_close_nodedup(old_, new_) ==
  SortByDate(SelectSeq(old_ \o new_,
     LAMBDA it : it.date # NoDate /\ it.close.k \in {"num", "nonfinite"}))

merge_history_close_oldwins(old_, new_) ==
  SortedValues(merge_loop_close(merge_loop_close(EmptyDict, new_, 1, Len(new_)),
                                old_, 1, Len(old_)))

merge_history_close(old_, new_) ==
  Only({SortedValues(m) :
          m \in {merge_loop_close(m_old, new_, 1, Len(new_)) :
                   m_old \in {merge_loop_close(EmptyDict, old_, 1, Len(old_))}}})

\* scripts/history_ohlc.py: normalize(it)
normalize(it) == build_candle(it.date, it.open, it.high, it.low, it.close)

merge_step_ohlc(m, it) ==
  Only({IF candle # Rejected THEN DictSet(m, candle.date, candle) ELSE m :
          candle \in {normalize(it)}})

RECURSIVE merge_loop_ohlc(_, _, _, _)
merge_loop_ohlc(m, arr, lo, hi) ==
  IF lo > hi THEN m
  ELSE IF lo = hi THEN merge_step_ohlc(m, arr[lo])
  ELSE LET mid == (lo + hi) \div 2
       IN Only({merge_loop_ohlc(half, arr, mid + 1, hi) :
                  half \in {merge_loop_ohlc(m, arr, lo, mid)}})

merge_history_ohlc(old_, new_) ==
  Only({SortedValues(m) :
          m \in {merge_loop_ohlc(m_old, new_, 1, Len(new_)) :
                   m_old \in {merge_loop_ohlc(EmptyDict, old_, 1, Len(old_))}}})

\* merged = merge_history([], fresh): the series on disk is left out
merge_history_freshonly(v, old_, new_) ==
  IF v = "close" THEN merge_history_close(<<>>, new_)
  ELSE merge_history_ohlc(<<>>, new_)

merge_history(v, old_, new_) ==
  IF v = "close" THEN merge_history_close(old_, new_)
  ELSE merge_history_ohlc(old_, new_)

----------------------------------------------------------------------------
(* Coverage checker, scripts/history.py and scripts/history_ohlc.py *)

MIN_POINTS == 200
YEAR_DAYS == 365
GAP_UNKNOWN == 999

\* a date string datetime.fromisoformat rejects; it sorts before every date
BadDate == -1

\* the default weekmask of numpy: Monday to Friday
IsBusday(d) == d % 7 \in 0..4

\* np.busday_count(begin, end): the business days of [begin, end), and for
\* end < begin minus the business days of (end, begin]
busday_count(begin, end) ==
  IF begin <= end THEN Cardinality({d \in begin..(end - 1) : IsBusday(d)})
  ELSE 0 - Cardinality({d \in (end + 1)..begin : IsBusday(d)})

\* the business gap of coverage_ok, 999 when the last date does not parse
business_gap(last, today_) ==
  IF last = BadDate THEN GAP_UNKNOWN ELSE busday_count(last, today_)

coverage_ok_flipped(data, min_from_date, today_) ==
  IF data = <<>> THEN FALSE
  ELSE LET sorted == SortByDate(data)
           first == sorted[1].date
           last == sorted[Len(sorted)].date
       IN /\ Len(data) >= MIN_POINTS
          /\ first >= min_from_date
          /\ business_gap(last, today_) <= 1

coverage_ok_more(data, min_from_date, today_) ==
  IF data = <<>> THEN FALSE
  ELSE LET sorted == SortByDate(data)
           first == sorted[1].date
           last == sorted[Len(sorted)].date
       IN /\ Len(data) > MIN_POINTS
          /\ first <= min_from_date
          /\ business_gap(last, today_) <= 1

\* the result of coverage_ok(data, min_from_date); the call also leaves data
\* sorted (after_coverage_sort)
coverage_ok(data, min_from_date, today_) ==
  IF data = <<>> THEN FALSE
  ELSE LET sorted == SortByDate(data)
           first == sorted[1].date
           last == sorted[Len(sorted)].date
       IN /\ Len(data) >= MIN_POINTS
          /\ first <= min_from_date
          /\ business_gap(last, today_) <= 1

\* data after coverage_ok(data, ...): sorted in place unless empty
after_coverage_sort(data) == IF data = <<>> THEN data ELSE SortByDate(data)

\* main: cutoff = today - timedelta(days=365)
cutoff_of(today_) == today_ - YEAR_DAYS

----------------------------------------------------------------------------
(* Calls of the pure functions: arguments drawn from bounded sets *)

SeqsUpTo(S, n) == UNION {[1..k -> S] : k \in 0..n}

Dates == 1..MaxDate
Vals == 1..MaxVal

\* the close values a record of a merge input may carry
MergeCloses == {None, NumText(1), NonFinite} \cup {Num(n) : n \in Vals}

\* the records of a merge input: dated points with any close, a point whose
\* date is not a string, and (candles) a record whose high lies below its low
MergeRecs(v) ==
  {Point(d, c) : d \in Dates, c \in MergeCloses}
    \cup {Point(NoDate, Num(1))}
    \cup (IF v = "ohlc"
          THEN {Rec(d, Num(MaxVal), Num(1), Num(MaxVal), Num(1)) : d \in Dates}
          ELSE {})

NoMergeCall == [old |-> <<>>, new |-> <<>>, out |-> <<>>, again |-> <<>>, pc |-> "idle"]
NoCandleCall == [arg |-> Rejected, out |-> Rejected, pc |-> "idle"]
NoShape == [kind |-> "none", n |-> 0, lag |-> 0, moved |-> FALSE]
NoCoverCall == [shape |-> NoShape, data |-> <<>>, min_from_date |-> 0,
                out |-> FALSE, pc |-> "idle"]

\* no run of main
NoFile == [exists |-> FALSE, data |-> <<>>]
NoRun ==
  /\ env = [use_worker |-> FALSE, token |-> FALSE, av_key |-> FALSE]
  /\ disk = <<>>
  /\ idx = 0
  /\ processed = 0
  /\ pc = "idle"
  /\ existing = <<>>
  /\ fresh = <<>>
  /\ source = ""
  /\ status = "none"
  /\ calls = <<>>
  /\ wrote = FALSE
  /\ before = NoFile
  /\ rested = TRUE

\* no call of an adapter followed request by request
NoAdapterCall ==
  [adapter |-> "none", host |-> 0, attempt |-> 0, requests |-> 0,
   last |-> "-", slept |-> 0, all429 |-> FALSE, failed |-> 0,
   out |-> "-", pc |-> "idle"]
NoAdapterRun == adapterCall = NoAdapterCall

\* no run of the quote snapshotter
NoQuotesFile == [exists |-> FALSE, map |-> <<>>]
NoQRun ==
  [pc |-> "idle", n |-> 0, api_key |-> FALSE, had_prev |-> FALSE,
   prev |-> <<>>, open |-> {}, symbols |-> <<>>, i |-> 0, out |-> <<>>,
   changed |-> FALSE, asked |-> {}, kept |-> {}, exit |-> "-"]
NoQuotesRun ==
  /\ quotes = [out |-> NoQuotesFile, public |-> NoQuotesFile, tickers |-> <<>>]
  /\ qrun = NoQRun
  /\ everQuoted = {}

\* no load into the database, no run of check_history.py, no slicing
NoLoad ==
  [rows |-> <<>>, keyed |-> FALSE, loads |-> 0, latest |-> {},
   raised |-> FALSE, pc |-> "idle"]
NoCheckRun == [i |-> 0, missing |-> <<>>, printed |-> <<>>, exit |-> 0, pc |-> "idle"]
NoBatchCall ==
  [tickers |-> <<>>, batch_index |-> 0, batch_size |-> 0, out |-> <<>>,
   pc |-> "idle"]
NoToolRun ==
  /\ db = NoLoad
  /\ checkRun = NoCheckRun
  /\ batchCall = NoBatchCall

InitMerge ==
  /\ NoRun
  /\ NoAdapterRun
  /\ NoToolRun
  /\ NoQuotesRun
  /\ variant \in Variants
  /\ today = 0
  /\ \E o \in SeqsUpTo(MergeRecs(variant), MaxTotal) :
       \E n \in SeqsUpTo(MergeRecs(variant), MaxTotal - Len(o)) :
         mergeCall = [old |-> o, new |-> n, out |-> <<>>, again |-> <<>>, pc |-> "args"]
  /\ candleCall = NoCandleCall
  /\ coverCall = NoCoverCall

\* merged = merge_history(old, new)
Merge ==
  /\ mergeCall.pc = "args"
  /\ mergeCall' = [mergeCall EXCEPT
        !.out = merge_history(variant, mergeCall.old, mergeCall.new),
        !.pc = "merged"]
  /\ UNCHANGED <<variant, today, candleCall, coverCall, runVars, auxVars>>

\* merge_history(merged, new): the same fresh series merged a second time
MergeAgain ==
  /\ mergeCall.pc = "merged"
  /\ mergeCall' = [mergeCall EXCEPT
        !.again = merge_history(variant, mergeCall.out, mergeCall.new),
        !.pc = "remerged"]
  /\ UNCHANGED <<variant, today, candleCall, coverCall, runVars, auxVars>>

NextMerge == Merge \/ MergeAgain

SpecMerge == InitMerge /\ [][NextMerge]_vars

\* the raw values a field of a candle input may carry
RawVals == {None, Text, NonFinite, NumText(1)} \cup {Num(n) : n \in Vals}

InitCandle ==
  /\ NoRun
  /\ NoAdapterRun
  /\ NoToolRun
  /\ NoQuotesRun
  /\ variant = "ohlc"
  /\ today = 0
  /\ mergeCall = NoMergeCall
  /\ \E d \in {NoDate, 1}, o \in RawVals, h \in RawVals, l \in RawVals, c \in RawVals :
       candleCall = [arg |-> Rec(d, o, h, l, c), out |-> Rejected, pc |-> "args"]
  /\ coverCall = NoCoverCall

\* candle = build_candle(date, open, high, low, close)
BuildCandle ==
  /\ candleCall.pc = "args"
  /\ candleCall' = [candleCall EXCEPT
        !.out = build_candle(candleCall.arg.date, candleCall.arg.open,
                             candleCall.arg.high, candleCall.arg.low,
                             candleCall.arg.close),
        !.pc = "done"]
  /\ UNCHANGED <<variant, today, mergeCall, coverCall, runVars, auxVars>>

NextCandle == BuildCandle

SpecCandle == InitCandle /\ [][NextCandle]_vars

\* the n latest business days that are <= x, ascending
BusdaysUpTo(x, n) ==
  LET all == SortedKeys({d \in (x - 7 * ((n \div 5) + 1))..x : IsBusday(d)})
  IN SubSeq(all, Len(all) - n + 1, Len(all))

\* the business day k business days before the business day x
BusdaysBefore(x, k) == BusdaysUpTo(x, k + 1)[1]

SeriesKinds == {"daily", "business", "sparse", "undated"}
SeriesLens == {0, 1, MIN_POINTS - 1, MIN_POINTS, YEAR_DAYS, YEAR_DAYS + 1}
\* the dates of a series of n points whose last date is today - lag (for the
\* business kind, the last business day not after it): every calendar day,
\* every business day, every second day, or n points whose date is not an
\* ISO date
SeriesDates(kind, n, lag, today_) ==
  IF kind = "daily" THEN [i \in 1..n |-> today_ - lag - n + i]
  ELSE IF kind = "sparse" THEN [i \in 1..n |-> today_ - lag - 2 * (n - i)]
  ELSE IF kind = "business" THEN BusdaysUpTo(today_ - lag, n)
  ELSE [i \in 1..n |-> BadDate]

\* the series of a shape; moved: the last point is re-dated 5 business days
\* into the past and stays at the end of the list
SeriesOf(shape, today_) ==
  LET ds == SeriesDates(shape.kind, shape.n, shape.lag, today_)
      n == Len(ds)
  IN [i \in 1..n |->
        Point(IF shape.moved /\ i = n /\ shape.kind # "undated"
              THEN BusdaysBefore(BusdaysUpTo(ds[n], 1)[1], 5)
              ELSE ds[i],
              Num(1))]

\* a series may end tomorrow, today, up to MaxLag days ago, or a week ago
SeriesLags == ((0 - 1)..MaxLag) \cup {7}

Shapes == [kind : SeriesKinds, n : SeriesLens, lag : SeriesLags, moved : BOOLEAN]

Todays == TodayBase..(TodayBase + 6)

InitCoverage ==
  /\ NoRun
  /\ NoAdapterRun
  /\ NoToolRun
  /\ NoQuotesRun
  /\ variant = "close"
  /\ today \in Todays
  /\ mergeCall = NoMergeCall
  /\ candleCall = NoCandleCall
  /\ \E sh \in Shapes : \E c \in {cutoff_of(today), cutoff_of(today) + 1} :
       coverCall = [shape |-> sh, data |-> SeriesOf(sh, today),
                    min_from_date |-> c, out |-> FALSE, pc |-> "args"]

\* ok = coverage_ok(data, min_from_date)
Coverage ==
  /\ coverCall.pc = "args"
  /\ coverCall' = [coverCall EXCEPT
        !.out = coverage_ok(coverCall.data, coverCall.min_from_date, today),
        !.data = after_coverage_sort(coverCall.data),
        !.pc = "done"]
  /\ UNCHANGED <<variant, today, mergeCall, candleCall, runVars, auxVars>>

NextCoverage == Coverage

SpecCoverage == InitCoverage /\ [][NextCoverage]_vars

----------------------------------------------------------------------------
(* Fallback orchestrator: main of scripts/history.py and                   *)
(* scripts/history_ohlc.py, run without --symbols, --limit, --batch-index  *)

\* data/tickers.json: (symbol, market)
Tickers ==
  << [sym |-> "EURUSD", market |-> "FX"],
     [sym |-> "600519.SS", market |-> "CN"],
     [sym |-> "AAPL", market |-> "US"] >>

Symbols == {Tickers[i].sym : i \in 1..Len(Tickers)}

\* sym.endswith('.SS')
EndsWithSS(sym) == sym \in {"600519.SS"}

\* fetch_daily_stooq: "." in sym and the suffix is not "us"
StooqUnsupported(sym) == sym \in {"600519.SS"}

\* main: the markets no equity provider is asked for, without FX
LockedMarkets_nofx == {"CRYPTO", "COM", "IDX"}

\* the markets the keyed and CSV providers are not asked for
LockedMarkets == {"CRYPTO", "FX", "COM", "IDX"}

\* the adapters in the order of the blocks of main
Adapters == <<"yahoo_worker", "yahoo", "finnhub", "akshare", "alpha", "stooq">>

AdapterIndex(a) == CHOOSE i \in 1..Len(Adapters) : Adapters[i] = a

\* the step after a step of the loop body
NextStage_alphalast(stage) ==
  CASE stage = "yahoo_worker" -> "yahoo"
    [] stage = "yahoo" -> "finnhub"
    [] stage = "finnhub" -> "akshare"
    [] stage = "akshare" -> "stooq"
    [] stage = "stooq" -> "alpha"
    [] stage = "alpha" -> "finish"

NextStage(stage) ==
  CASE stage = "yahoo_worker" -> "yahoo"
    [] stage = "yahoo" -> "finnhub"
    [] stage = "finnhub" -> "akshare"
    [] stage = "akshare" -> "alpha"
    [] stage = "alpha" -> "stooq"
    [] stage = "stooq" -> "finish"

\* what one HTTP request of an adapter can be answered with: a 200 with a
\* usable payload, a 200 whose payload holds no point, the statuses 404, 403,
\* 429 and 503, or no answer within the timeout (requests raises)
Responses == {"ok", "ok_nothing", "404", "403", "429", "503", "timeout"}

\* fetch_daily_worker, from "r = SESSION.get(...)" on: one request, 404
\* returns [], raise_for_status and the payload checks raise
fetch_daily_worker_404raises(resp) ==
  CASE resp = "ok" -> "data"
    [] OTHER -> "raise"

fetch_daily_worker(resp) ==
  CASE resp = "404" -> "empty"
    [] resp = "ok" -> "data"
    [] OTHER -> "raise"

\* what a call of an adapter can do: raise, return an empty series (or None),
\* return a non-empty series; akshare can also return a frame none of whose
\* rows gives a point ("norows")
AdapterResults(v, a, sym) ==
  CASE a = "yahoo_worker" -> {fetch_daily_worker(resp) : resp \in Responses}
    [] a = "yahoo" -> {"empty", "data"}
    [] a = "finnhub" -> IF v = "close" THEN {"raise", "data"}
                        ELSE {"raise", "empty", "data"}
    [] a = "akshare" -> {"raise", "empty", "norows", "data"}
    [] a = "alpha" -> {"raise", "empty", "data"}
    [] a = "stooq" -> IF StooqUnsupported(sym) THEN {"empty"}
                      ELSE {"raise", "empty", "data"}

\* the answers to a call of an adapter: for the proxy worker the response to
\* its request and what the adapter makes of it, for the others the outcome
AdapterReplies(v, a, sym) ==
  IF a = "yahoo_worker"
  THEN {[resp |-> x, result |-> fetch_daily_worker(x)] : x \in Responses}
  ELSE {[resp |-> "-", result |-> r] : r \in AdapterResults(v, a, sym)}

\* the series an adapter returns: the last two days, priced by the adapter
AdapterData(v, a, today_) ==
  LET price == Num(AdapterIndex(a)) IN
    IF v = "close"
    THEN << Point(today_ - 2, price), Point(today_ - 1, price) >>
    ELSE << build_candle(today_ - 2, None, None, None, price),
            build_candle(today_ - 1, None, None, None, price) >>

\* the files a symbol can have before the run: none; two old points, out of
\* order, one without a usable close; two old points in order; a series that
\* satisfies the coverage policy; a record without a "date" key
StaleDirtyFile(today_) ==
  [exists |-> TRUE,
   data |-> << Point(today_ - 2, Num(9)), Point(today_ - 3, None) >>]
StaleCleanFile(today_) ==
  [exists |-> TRUE,
   data |-> << Point(today_ - 3, Num(9)), Point(today_ - 2, Num(9)) >>]
CoveringFile(today_) ==
  [exists |-> TRUE,
   data |-> SeriesOf([kind |-> "sparse", n |-> MIN_POINTS, lag |-> 0,
                      moved |-> FALSE], today_)]
BrokenFile == [exists |-> TRUE, data |-> << Point(NoDate, Num(9)) >>]

Files(today_) ==
  {NoFile, StaleDirtyFile(today_), StaleCleanFile(today_), CoveringFile(today_),
   BrokenFile}

\* load_existing(sym)
load_existing(file) == IF file.exists THEN file.data ELSE <<>>

\* data.sort(key=lambda x: x["date"]) raises KeyError
SortRaises_never(data) == FALSE

SortRaises(data) == \E i \in 1..Len(data) : data[i].date = NoDate

\* main: "if coverage_ok(existing, cutoff)"
Sufficient_never(data, today_) == FALSE

Sufficient(data, today_) == coverage_ok(data, cutoff_of(today_), today_)

\* main: "if not fresh", the guard of every adapter after the first
NeedsData_always(fresh_) == TRUE

NeedsData(fresh_) == fresh_ = <<>>

\* main: "if not fresh and not existing: ... continue"
SkipWrite_nofresh(fresh_, existing_) == fresh_ = <<>>

SkipWrite_never(fresh_, existing_) == FALSE

SkipWrite(fresh_, existing_) == fresh_ = <<>> /\ existing_ = <<>>

Init ==
  /\ variant \in Variants
  /\ NoAdapterRun
  /\ NoToolRun
  /\ NoQuotesRun
  /\ today = TodayBase
  /\ mergeCall = NoMergeCall
  /\ candleCall = NoCandleCall
  /\ coverCall = NoCoverCall
  /\ env \in [use_worker : BOOLEAN, token : BOOLEAN, av_key : BOOLEAN]
  /\ disk \in [Symbols -> Files(today)]
  /\ idx = 1
  /\ processed = 0
  /\ pc = "start"
  /\ existing = <<>>
  /\ fresh = <<>>
  /\ source = ""
  /\ status = "none"
  /\ calls = <<>>
  /\ wrote = FALSE
  /\ before = NoFile
  /\ rested = TRUE

Sym == Tickers[idx].sym
Market == Tickers[idx].market

\* existing = load_existing(sym); if coverage_ok(existing, cutoff): continue
LoadAndCheck ==
  /\ pc = "start"
  /\ before' = disk[Sym]
  /\ LET loaded == load_existing(disk[Sym]) IN
       IF SortRaises(loaded)
       THEN /\ existing' = loaded
            /\ status' = "failed"           \* except Exception: history failed
            /\ pc' = "end"
            /\ processed' = processed + 1
       ELSE /\ existing' = after_coverage_sort(loaded)
            /\ IF Sufficient(loaded, today)
               THEN /\ status' = "skipped-sufficient"
                    /\ pc' = "end"
                    /\ processed' = processed + 1
               ELSE /\ status' = "processing"
                    /\ pc' = "yahoo_worker"
                    /\ UNCHANGED processed
  /\ UNCHANGED <<variant, today, mergeCall, candleCall, coverCall, auxVars, env,
                 disk, idx, fresh, source, calls, wrote, rested>>

\* fresh and source after the adapter a answered r
FreshAfter(a, r) ==
  CASE r = "data" -> AdapterData(variant, a, today)
    [] r \in {"empty", "norows"} -> <<>>
    [] r = "raise" -> fresh

\* where main goes on once the adapter of a step has returned or raised: the
\* try/except of every adapter falls through to the next "if not fresh" block
AfterCall_abort(stage, r) == IF r = "raise" THEN "end" ELSE NextStage(stage)

AfterCall(stage, r) == NextStage(stage)

\* a call of the adapter a: "fresh = fetch(...); if fresh: source = name"
Fetch(a) ==
  \E rep \in AdapterReplies(variant, a, Sym) :
    /\ calls' = Append(calls, [adapter |-> a, resp |-> rep.resp,
                               result |-> rep.result])
    /\ fresh' = FreshAfter(a, rep.result)
    /\ source' = IF rep.result = "data" THEN a ELSE source
    /\ pc' = AfterCall(pc, rep.result)
    /\ rested' = FALSE

Skip ==
  /\ pc' = NextStage(pc)
  /\ UNCHANGED <<calls, fresh, source, rested>>

Frame ==
  UNCHANGED <<variant, today, mergeCall, candleCall, coverCall, auxVars, env,
              disk, idx, processed, existing, status, wrote, before>>

\* if use_worker: fresh = fetch_daily_worker(...)
TryWorker ==
  /\ pc = "yahoo_worker"
  /\ IF env.use_worker THEN Fetch("yahoo_worker") ELSE Skip
  /\ Frame

\* if not fresh: fresh = fetch_daily_yahoo(...)
TryYahoo ==
  /\ pc = "yahoo"
  /\ IF NeedsData(fresh)
     THEN \E rep \in AdapterReplies(variant, "yahoo", Sym) :
            /\ calls' = Append(calls, [adapter |-> "yahoo", resp |-> rep.resp,
                                       result |-> rep.result])
            /\ fresh' = FreshAfter("yahoo", rep.result)
            /\ source' = IF rep.result = "data" /\ source = ""
                         THEN "yahoo" ELSE source
            /\ pc' = AfterCall(pc, rep.result)
            /\ rested' = FALSE
     ELSE Skip
  /\ Frame

\* if not fresh and token and market not in {...} and not sym.endswith('.SS')
TryFinnhub ==
  /\ pc = "finnhub"
  /\ IF NeedsData(fresh) /\ env.token /\ Market \notin LockedMarkets
          /\ ~EndsWithSS(Sym)
     THEN Fetch("finnhub") ELSE Skip
  /\ Frame

\* if not fresh and (market == "CN" or sym.endswith('.SS')): akshare, inline
TryAkshare ==
  /\ pc = "akshare"
  /\ IF NeedsData(fresh) /\ (Market = "CN" \/ EndsWithSS(Sym))
     THEN \E rep \in AdapterReplies(variant, "akshare", Sym) :
            LET r == rep.result IN
            /\ calls' = Append(calls, [adapter |-> "akshare", resp |-> rep.resp,
                                       result |-> r])
            /\ fresh' = IF r = "data" THEN AdapterData(variant, "akshare", today)
                        ELSE IF r = "norows" /\ variant = "close" THEN <<>>
                        ELSE fresh
            /\ source' = IF r = "data" \/ (r = "norows" /\ variant = "close")
                         THEN "akshare" ELSE source
            /\ pc' = AfterCall(pc, r)
            /\ rested' = FALSE
     ELSE Skip
  /\ Frame

\* if not fresh and av_key and market not in {...}
TryAlpha ==
  /\ pc = "alpha"
  /\ IF NeedsData(fresh) /\ env.av_key /\ Market \notin LockedMarkets
     THEN Fetch("alpha") ELSE Skip
  /\ Frame

\* if not fresh and market not in {...}
TryStooq ==
  /\ pc = "stooq"
  /\ IF NeedsData(fresh) /\ Market \notin LockedMarkets
     THEN Fetch("stooq") ELSE Skip
  /\ Frame

\* the file open(out_path, "w") leaves before json.dump has written and the
\* file is closed: it exists and holds no series
TruncatedFile == [exists |-> TRUE, data |-> <<>>]

\* if not fresh and not existing: continue; else merged = merge_history(...)
\* and open(out_path, "w")
Finish ==
  /\ pc = "finish"
  /\ IF SkipWrite(fresh, existing)
     THEN /\ status' = "skipped-no-data"
          /\ pc' = "end"
          /\ processed' = processed + 1
          /\ UNCHANGED disk
     ELSE /\ disk' = [disk EXCEPT ![Sym] = TruncatedFile]
          /\ pc' = "write"
          /\ UNCHANGED <<status, processed>>
  /\ UNCHANGED <<variant, today, mergeCall, candleCall, coverCall, auxVars, env,
                 idx, existing, fresh, source, calls, wrote, before, rested>>

\* json.dump(merged, f), the file is closed, "[ok] wrote"
Write ==
  /\ pc = "write"
  /\ disk' = [disk EXCEPT ![Sym] =
       [exists |-> TRUE, data |-> merge_history(variant, existing, fresh)]]
  /\ status' = "written"
  /\ wrote' = TRUE
  /\ pc' = "end"
  /\ processed' = processed + 1
  /\ UNCHANGED <<variant, today, mergeCall, candleCall, coverCall, auxVars, env,
                 idx, existing, fresh, source, calls, before, rested>>

\* the for loop takes the next ticker, or main returns
NextSymbol ==
  /\ pc = "end"
  /\ IF idx < Len(Tickers)
     THEN idx' = idx + 1 /\ pc' = "start"
     ELSE idx' = idx /\ pc' = "exit"
  /\ existing' = <<>>
  /\ fresh' = <<>>
  /\ source' = ""
  /\ status' = "none"
  /\ calls' = <<>>
  /\ wrote' = FALSE
  /\ before' = NoFile
  /\ UNCHANGED <<variant, today, mergeCall, candleCall, coverCall, auxVars, env,
                 disk, processed, rested>>

Next ==
  \/ LoadAndCheck
  \/ TryWorker
  \/ TryYahoo
  \/ TryFinnhub
  \/ TryAkshare
  \/ TryAlpha
  \/ TryStooq
  \/ Finish
  \/ Write
  \/ NextSymbol

Spec == Init /\ [][Next]_vars

\* the runs followed to their end: the two API keys are set together or not
\* at all, and an old file is the one with an unusable record
InitFair ==
  /\ Init
  /\ env.token = env.av_key
  /\ \A s \in Symbols : disk[s] # StaleCleanFile(today)

\* the run when nothing stops the process: every step of main that can be
\* taken is taken (each adapter call ends: its requests have timeouts and
\* its retries are counted)
FairSpec == InitFair /\ [][Next]_vars /\ WF_vars(Next)

\* the process is stopped (killed, or KeyboardInterrupt, which no
\* "except Exception" catches) wherever main stands
Stop ==
  /\ pc \notin {"idle", "exit", "stopped"}
  /\ pc' = "stopped"
  /\ UNCHANGED <<variant, today, mergeCall, candleCall, coverCall, auxVars, env,
                 disk, idx, processed, existing, fresh, source, status, calls,
                 wrote, before, rested>>

NextStop == Next \/ Stop

SpecStop == Init /\ [][NextStop]_vars

----------------------------------------------------------------------------
(* One call of an adapter, request by request: fetch_daily_yahoo,          *)
(* fetch_daily_worker and fetch_daily_finnhub of scripts/history.py, and   *)
(* fetch_symbol of legacy/fetch_yahoo.py. Times are in quarter seconds.    *)

Seconds(n) == 4 * n

\* fetch_daily_yahoo: the four entries of hosts, "for attempt in range(1, 33)"
YahooHosts == 4
YahooAttempts == 32

\* fetch_symbol: the three entries of Y_HOSTS, "for attempt in range(1, 5)"
LegacyHosts == 3
LegacyAttempts == 4

\* random.uniform(1.0, 3.0) and random.uniform(3.0, 6.0), to the second
Jitter == {Seconds(1), Seconds(2), Seconds(3)}
ServerErrorSleep == {Seconds(3), Seconds(6)}

\* fetch_daily_yahoo: min(15.0 * attempt, 60.0)
yahoo_backoff_uncapped(attempt) == Seconds(15 * attempt)

yahoo_backoff(attempt) == Min2(Seconds(15 * attempt), Seconds(60))

\* fetch_symbol: wait = 1.5 * attempt + 0.75
legacy_wait(attempt) == 6 * attempt + 3

\* fetch_symbol: backoff = min(6.0 * attempt, 12.0)
legacy_backoff(attempt) == Min2(Seconds(6 * attempt), Seconds(12))

\* the responses the code treats as a transient failure of the provider
Transient == {"429", "503", "timeout"}

\* the call of an adapter about to send its first request
FirstRequest(a) ==
  [adapter |-> a, host |-> 1, attempt |-> 1, requests |-> 0, last |-> "-",
   slept |-> 0, all429 |-> TRUE, failed |-> 0, out |-> "-", pc |-> "request"]

\* the request has been sent and answered resp, after which the adapter
\* slept for t
Answered(c, resp, t) ==
  [c EXCEPT !.requests = c.requests + 1,
            !.last = resp,
            !.slept = t,
            !.all429 = c.all429 /\ resp = "429",
            !.failed = IF resp \in Transient THEN Min2(c.failed + 1, 2) ELSE c.failed]

\* "return": the call is over
Returned(c, result) == [c EXCEPT !.out = result, !.pc = "done"]

\* "continue": the next attempt on the host, the first attempt on the next
\* host after the last attempt, the end of the function after the last host
Continue(c, hosts, attempts, atEnd) ==
  IF c.attempt < attempts THEN [c EXCEPT !.attempt = c.attempt + 1]
  ELSE IF c.host < hosts THEN [c EXCEPT !.host = c.host + 1, !.attempt = 1]
  ELSE Returned(c, atEnd)

\* "break": the first attempt on the next host, the end of the function
\* after the last host
Break(c, hosts, atEnd) ==
  IF c.host < hosts THEN [c EXCEPT !.host = c.host + 1, !.attempt = 1]
  ELSE Returned(c, atEnd)

\* the other variables of the model
AdapterFrame ==
  UNCHANGED <<variant, today, mergeCall, candleCall, coverCall, runVars,
              quotes, qrun, everQuoted, toolVars>>

\* fetch_daily_yahoo: one pass of the attempt loop
YahooRequest ==
  /\ adapterCall.adapter = "yahoo"
  /\ adapterCall.pc = "request"
  /\ \E resp \in Responses : \E j \in Jitter : \E e \in ServerErrorSleep :
       adapterCall' =
         CASE resp = "429" ->
                Continue(Answered(adapterCall, resp,
                                  yahoo_backoff(adapterCall.attempt) + j),
                         YahooHosts, YahooAttempts, "none")
           [] resp = "503" ->
                Continue(Answered(adapterCall, resp, e),
                         YahooHosts, YahooAttempts, "none")
           [] resp \in {"404", "403", "timeout"} ->
                Returned(Answered(adapterCall, resp, 0), "empty")
           [] resp = "ok_nothing" ->
                Break(Answered(adapterCall, resp, 0), YahooHosts, "none")
           [] OTHER ->
                Returned(Answered(adapterCall, resp, 0), "data")
  /\ AdapterFrame

\* fetch_symbol: one pass of the attempt loop
LegacyRequest ==
  /\ adapterCall.adapter = "legacy"
  /\ adapterCall.pc = "request"
  /\ \E resp \in Responses :
       adapterCall' =
         CASE resp = "429" ->
                Continue(Answered(adapterCall, resp,
                                  legacy_wait(adapterCall.attempt)),
                         LegacyHosts, LegacyAttempts, "raise")
           [] resp = "ok" ->
                Returned(Answered(adapterCall, resp, 0), "data")
           [] OTHER ->
                Continue(Answered(adapterCall, resp,
                                  legacy_backoff(adapterCall.attempt)),
                         LegacyHosts, LegacyAttempts, "raise")
  /\ AdapterFrame

\* fetch_daily_finnhub: raise_for_status, then the checks of the payload
fetch_daily_finnhub_quiet(resp) == IF resp = "ok" THEN "data" ELSE "empty"

fetch_daily_finnhub(resp) == IF resp = "ok" THEN "data" ELSE "raise"

\* fetch_daily_worker: its only request
WorkerRequest ==
  /\ adapterCall.adapter = "yahoo_worker"
  /\ adapterCall.pc = "request"
  /\ \E resp \in Responses :
       adapterCall' = Returned(Answered(adapterCall, resp, 0),
                               fetch_daily_worker(resp))
  /\ AdapterFrame

\* fetch_daily_finnhub: its only request
FinnhubRequest ==
  /\ adapterCall.adapter = "finnhub"
  /\ adapterCall.pc = "request"
  /\ \E resp \in Responses :
       adapterCall' = Returned(Answered(adapterCall, resp, 0),
                               fetch_daily_finnhub(resp))
  /\ AdapterFrame

InitAdapter ==
  /\ NoRun
  /\ NoToolRun
  /\ NoQuotesRun
  /\ variant \in {"close", "ohlc"}
  /\ today = TodayBase
  /\ mergeCall = NoMergeCall
  /\ candleCall = NoCandleCall
  /\ coverCall = NoCoverCall
  /\ \E a \in {"yahoo", "legacy", "yahoo_worker", "finnhub"} :
       adapterCall = FirstRequest(a)

NextAdapter == YahooRequest \/ LegacyRequest \/ WorkerRequest \/ FinnhubRequest

SpecAdapter == InitAdapter /\ [][NextAdapter]_vars

----------------------------------------------------------------------------
(* The quote snapshotter: main of scripts/quotes.py, run again and again   *)
(* over data/quotes.json (OUT) and public/quotes.json (PUBLIC_OUT)         *)

\* a price as json holds it: an integer or a float
Float(n) == [k |-> "float", v |-> n]

\* float(x)
to_float(x) == [k |-> "float", v |-> x.v]

\* no entry for a symbol: prev.get(s) is None
NoQuote == [last |-> None, as_of |-> 0, interval |-> "-"]

\* data/tickers.json as the snapshotter finds it: the tickers of the history
\* scripts, or a US ticker and a crypto ticker
CryptoTickers ==
  << [sym |-> "AAPL", market |-> "US"], [sym |-> "BTC-USD", market |-> "CRYPTO"] >>

TickerFiles == {Tickers, CryptoTickers}

QSymbols == Symbols \cup {CryptoTickers[i].sym : i \in 1..Len(CryptoTickers)}

EmptyQuotes == [s \in QSymbols |-> NoQuote]

\* the time of the n-th run, and the times a provider can stamp a quote with
Stamps(n) == {n - 1, n}

\* the provider main asks for a symbol
MarketOf(s) ==
  LET all == Tickers \o CryptoTickers IN
    all[CHOOSE i \in 1..Len(all) : all[i].sym = s].market

QuoteSource(s) ==
  CASE MarketOf(s) = "US" -> "finnhub"
    [] MarketOf(s) = "CN" -> "akshare_spot"
    [] OTHER -> "yahoo_1d"

\* load_tickers_by_market and the order in which main extends symbols: US,
\* CN, ..., CRYPTO, FX, ...
MarketOrder == << "US", "CN", "CRYPTO", "FX" >>

\* the markets main finds open when the clock (and Finnhub's market status)
\* says that those of clock are: "open_crypto = bool(crypto_list) and
\* crypto_market_is_open()", which is always True, "open_fx = bool(fx_list)
\* and fx_market_is_open()"
OpenMarkets(tickers, clock) ==
  LET listed == {tickers[i].market : i \in 1..Len(tickers)} IN
    (clock \cap {"US", "CN"}) \cup (clock \cap {"FX"} \cap listed)
      \cup ({"CRYPTO"} \cap listed)

\* symbols.extend(...) for each open market
RECURSIVE SymbolsOf_all(_, _, _)
SymbolsOf_all(tickers, open, k) ==
  IF k > Len(MarketOrder) THEN <<>>
  ELSE SelectSeq([i \in 1..Len(tickers) |-> tickers[i].sym],
                 LAMBDA x : MarketOf(x) = MarketOrder[k])
         \o SymbolsOf_all(tickers, open, k + 1)

RECURSIVE SymbolsOf(_, _, _)
SymbolsOf(tickers, open, k) ==
  IF k > Len(MarketOrder) THEN <<>>
  ELSE (IF MarketOrder[k] \in open
        THEN SelectSeq([i \in 1..Len(tickers) |-> tickers[i].sym],
                       LAMBDA x : MarketOf(x) = MarketOrder[k])
        ELSE <<>>) \o SymbolsOf(tickers, open, k + 1)

\* load_previous()
load_previous(q) ==
  IF q.out.exists THEN q.out.map
  ELSE IF q.public.exists THEN q.public.map
  ELSE EmptyQuotes

\* the symbols with a non-null last in the mapping a run would load
Quoted(q) == {s \in QSymbols : load_previous(q)[s].last # None}

\* the entry kept for a symbol whose fetch gave nothing
carry_forward_drop(old) == NoQuote

carry_forward(old) ==
  [last |-> to_float(old.last), as_of |-> old.as_of, interval |-> old.interval]

QuoteFrame ==
  UNCHANGED <<variant, today, mergeCall, candleCall, coverCall, runVars,
              adapterCall, toolVars>>

\* main up to the loop over the symbols
QStart ==
  /\ qrun.pc \in {"idle", "done"}
  /\ qrun.n < MaxRuns
  /\ \E key \in BOOLEAN : \E clock \in SUBSET {"US", "CN", "FX"} :
       LET open == OpenMarkets(quotes.tickers, clock)
           symbols == SymbolsOf(quotes.tickers, open, 1)
           run == [pc |-> "loop", n |-> qrun.n + 1, api_key |-> key,
                   had_prev |-> quotes.out.exists,
                   prev |-> load_previous(quotes), open |-> open,
                   symbols |-> symbols, i |-> 1, out |-> EmptyQuotes,
                   changed |-> FALSE, asked |-> {}, kept |-> {}, exit |-> "-"]
       IN qrun' = IF symbols # <<>> THEN run
                  ELSE [run EXCEPT
                          !.pc = "done",
                          !.exit = IF quotes.out.exists \/ quotes.public.exists
                                   THEN "return" ELSE "abort"]
  /\ UNCHANGED <<quotes, everQuoted>>
  /\ QuoteFrame

\* "px is None" after the provider was asked; the provider was not asked
NothingFetched == [last |-> None, as_of |-> 0, interval |-> "nothing"]
NotAsked == [last |-> None, as_of |-> 0, interval |-> "nokey"]

\* what the provider of a symbol gives: nothing, or a price and its time
Fetched(s, n, key) ==
  IF MarketOf(s) = "US" /\ ~key THEN {NotAsked}
  ELSE {NothingFetched} \cup
       {[last |-> Float(px), as_of |-> t, interval |-> QuoteSource(s)] :
          px \in 1..MaxVal, t \in Stamps(n)}

\* "if prev.get(s) != new_entry: changed = True"
Differs_always(old, new_entry) == TRUE

Differs(old, new_entry) == old # new_entry

\* one pass of "for s in symbols"
QSymbol ==
  /\ qrun.pc = "loop"
  /\ qrun.i <= Len(qrun.symbols)
  /\ LET s == qrun.symbols[qrun.i]
         old == qrun.prev[s]
     IN \E got \in Fetched(s, qrun.n, qrun.api_key) :
          qrun' =
            CASE got = NotAsked -> [qrun EXCEPT !.i = qrun.i + 1]
              [] got = NothingFetched /\ old.last # None ->
                   [qrun EXCEPT !.i = qrun.i + 1,
                                !.out = [qrun.out EXCEPT ![s] = carry_forward(old)],
                                !.asked = qrun.asked \cup {s},
                                !.kept = qrun.kept \cup {s}]
              [] got = NothingFetched /\ old.last = None ->
                   [qrun EXCEPT !.i = qrun.i + 1,
                                !.asked = qrun.asked \cup {s}]
              [] OTHER ->
                   [qrun EXCEPT !.i = qrun.i + 1,
                                !.out = [qrun.out EXCEPT ![s] = got],
                                !.asked = qrun.asked \cup {s},
                                !.changed = qrun.changed \/ Differs(old, got)]
  /\ UNCHANGED <<quotes, everQuoted>>
  /\ QuoteFrame

\* main after the loop: nothing changed, or both files are written
QEnd ==
  /\ qrun.pc = "loop"
  /\ qrun.i > Len(qrun.symbols)
  /\ IF ~qrun.changed
     THEN /\ qrun' = [qrun EXCEPT !.pc = "done",
                         !.exit = IF qrun.had_prev THEN "return" ELSE "abort"]
          /\ UNCHANGED <<quotes, everQuoted>>
     ELSE /\ qrun' = [qrun EXCEPT !.pc = "done", !.exit = "wrote"]
          /\ quotes' = [quotes EXCEPT
                          !.out = [exists |-> TRUE, map |-> qrun.out],
                          !.public = [exists |-> TRUE, map |-> qrun.out]]
          /\ everQuoted' = everQuoted \cup Quoted(quotes')
  /\ QuoteFrame

\* the files before the first run: none, both as a run wrote them, or only
\* the public one
SeededQuotes(tickers) ==
  {[s \in QSymbols |-> IF s \in held
                       THEN [last |-> Float(1), as_of |-> 0,
                             interval |-> QuoteSource(s)]
                       ELSE NoQuote] :
     held \in (SUBSET {tickers[i].sym : i \in 1..Len(tickers)}) \ {{}}}

InitQuotes ==
  /\ NoRun
  /\ NoAdapterRun
  /\ NoToolRun
  /\ variant = "close"
  /\ today = TodayBase
  /\ mergeCall = NoMergeCall
  /\ candleCall = NoCandleCall
  /\ coverCall = NoCoverCall
  /\ qrun = NoQRun
  /\ \E t \in TickerFiles :
       \/ quotes = [out |-> NoQuotesFile, public |-> NoQuotesFile, tickers |-> t]
       \/ \E m \in SeededQuotes(t) :
            \/ quotes = [out |-> [exists |-> TRUE, map |-> m],
                         public |-> [exists |-> TRUE, map |-> m], tickers |-> t]
            \/ quotes = [out |-> NoQuotesFile,
                         public |-> [exists |-> TRUE, map |-> m], tickers |-> t]
  /\ everQuoted = Quoted(quotes)

NextQuotes == QStart \/ QSymbol \/ QEnd

SpecQuotes == InitQuotes /\ [][NextQuotes]_vars

----------------------------------------------------------------------------
(* Properties of merge_history *)

\* a record the merge keeps: a string date and a close the variant accepts
Usable(v, it) ==
  /\ it.date # NoDate
  /\ it.close.k \in (IF v = "close" THEN {"num", "nonfinite"} ELSE {"num", "numtext"})

\* the record the merge stores for a usable input record
Stored(v, it) == IF v = "close" THEN Point(it.date, it.close) ELSE normalize(it)

\* the index of the last usable record of arr dated d, 0 if there is none
LastUsable(v, arr, d) ==
  LET I == {i \in 1..Len(arr) : Usable(v, arr[i]) /\ arr[i].date = d}
  IN IF I = {} THEN 0 ELSE CHOOSE i \in I : \A j \in I : j <= i

UsableDates(v, arr) == {arr[i].date : i \in {j \in 1..Len(arr) : Usable(v, arr[j])}}

\* C1: merge_history(old, new) is strictly ascending by date, holds exactly
\* one record for every date that has a usable record in old or new, and the
\* record of a date that new covers is the one from new (for a date only old
\* covers, the one from old).
MergeSortedFreshWins ==
  mergeCall.pc # "args" /\ mergeCall.pc # "idle" =>
    LET o == mergeCall.old
        n == mergeCall.new
        out == mergeCall.out
    IN /\ \A i \in 1..Len(out) : \A j \in 1..Len(out) :
            i < j => out[i].date < out[j].date
       /\ {out[i].date : i \in 1..Len(out)}
            = UsableDates(variant, o) \cup UsableDates(variant, n)
       /\ \A i \in 1..Len(out) :
            LET d == out[i].date
                kn == LastUsable(variant, n, d)
                ko == LastUsable(variant, o, d)
            IN out[i] = IF kn # 0 THEN Stored(variant, n[kn])
                        ELSE Stored(variant, o[ko])

\* C1 witness: a merge where a date has usable records in both inputs with
\* different closes, beside a date that only one input covers
MergeConflictSeen ==
  /\ mergeCall.pc = "merged"
  /\ Len(mergeCall.out) >= 2
  /\ \E i \in 1..Len(mergeCall.old) : \E j \in 1..Len(mergeCall.new) :
       /\ Usable(variant, mergeCall.old[i])
       /\ Usable(variant, mergeCall.new[j])
       /\ mergeCall.old[i].date = mergeCall.new[j].date
       /\ mergeCall.old[i].close # mergeCall.new[j].close

\* C2: merging the same fresh series a second time changes nothing:
\* merge_history(merge_history(A, B), B) = merge_history(A, B).
MergeIdempotent ==
  mergeCall.pc = "remerged" => mergeCall.again = mergeCall.out

\* C2 witness: a second merge of a candle series whose fresh records had to
\* be re-normalized, over a non-empty old series
RemergeSeen ==
  /\ mergeCall.pc = "remerged"
  /\ variant = "ohlc"
  /\ mergeCall.old # <<>>
  /\ \E j \in 1..Len(mergeCall.new) :
       /\ Usable(variant, mergeCall.new[j])
       /\ mergeCall.new[j].high # None
       /\ \E i \in 1..Len(mergeCall.out) :
            mergeCall.out[i].date = mergeCall.new[j].date
              /\ mergeCall.out[i].high # mergeCall.new[j].high

----------------------------------------------------------------------------
(* Properties of build_candle *)

\* C3: a candle built from a usable close has low <= min(open, close) and
\* high >= max(open, close), whatever the raw open, high and low were.
CandleEnvelope ==
  candleCall.pc = "done" /\ candleCall.out # Rejected =>
    LET c == candleCall.out IN
      /\ c.low.v <= Min2(c.open.v, c.close.v)
      /\ c.high.v >= Max2(c.open.v, c.close.v)

\* C3 witness: a candle built from a raw high below the close and a raw low
\* above the open
CandleForcedSeen ==
  /\ candleCall.pc = "done"
  /\ candleCall.out # Rejected
  /\ candleCall.arg.high.k = "num"
  /\ candleCall.arg.low.k = "num"
  /\ candleCall.arg.high.v < candleCall.out.close.v
  /\ candleCall.arg.low.v > candleCall.out.open.v

\* open, high and low are all absent or unparsable
OnlyClose(arg) ==
  /\ safe_float(arg.open) = None
  /\ safe_float(arg.high) = None
  /\ safe_float(arg.low) = None

\* C4: with only a close present the candle has open = high = low = close,
\* and with the close absent or not a finite number no candle is produced.
CandleCloseOnly ==
  candleCall.pc = "done" =>
    /\ candleCall.arg.date # NoDate /\ safe_float(candleCall.arg.close) # None
         /\ OnlyClose(candleCall.arg) =>
           /\ candleCall.out # Rejected
           /\ candleCall.out.close = safe_float(candleCall.arg.close)
           /\ candleCall.out.open = candleCall.out.close
           /\ candleCall.out.high = candleCall.out.close
           /\ candleCall.out.low = candleCall.out.close
    /\ candleCall.arg.close.k \in {"none", "text", "nonfinite"} =>
           candleCall.out = Rejected

\* C4 witness: a candle built from a close alone, its raw high being
\* non-finite
CloseOnlySeen ==
  /\ candleCall.pc = "done"
  /\ OnlyClose(candleCall.arg)
  /\ candleCall.arg.high = NonFinite
  /\ candleCall.out # Rejected
  /\ candleCall.out.high = Num(MaxVal)

----------------------------------------------------------------------------
(* Properties of coverage_ok *)

DatesOf(data) == {data[i].date : i \in 1..Len(data)}
Earliest(data) == LET S == DatesOf(data) IN CHOOSE d \in S : \A e \in S : d <= e
Latest(data) == LET S == DatesOf(data) IN CHOOSE d \in S : \A e \in S : d >= e

\* the latest date is a date, and at most one business day lies in
\* [latest date, today)
Fresh(data, today_) ==
  LET latest == Latest(data) IN
    /\ latest # BadDate
    /\ Cardinality({d \in latest..(today_ - 1) : d % 7 \notin {5, 6}}) <= 1

\* C5: coverage_ok is False for the empty series; for a non-empty one it is
\* True exactly when the series has at least 200 points, its earliest date is
\* <= min_from_date and at most one business day separates its latest date
\* from today.
CoveragePolicy ==
  coverCall.pc = "done" =>
    IF coverCall.data = <<>> THEN coverCall.out = FALSE
    ELSE coverCall.out =
           (/\ Len(coverCall.data) >= 200
            /\ Earliest(coverCall.data) <= coverCall.min_from_date
            /\ Fresh(coverCall.data, today))

\* C5 witness: an unsorted series of exactly 200 points that passes
CoverageBoundarySeen ==
  /\ coverCall.pc = "done"
  /\ coverCall.out = TRUE
  /\ coverCall.shape.moved
  /\ Len(coverCall.data) = 200

\* C6 as stated: a series of 365 points ending today passes against the
\* cutoff 365 days before today, and the same series with its last point
\* shifted 5 business days into the past fails.
CoverageYearExample ==
  coverCall.pc = "done" /\ coverCall.min_from_date = today - 365
    /\ coverCall.shape.n = 365 /\ coverCall.shape.lag = 0
    /\ coverCall.shape.kind \in {"daily", "business"}
    /\ (coverCall.shape.kind = "business" => today % 7 \notin {5, 6}) =>
      coverCall.out = ~coverCall.shape.moved

\* C6 amended: a series of 365 points ending today passes against the cutoff
\* 365 days before today exactly when its earliest date is on or before that
\* cutoff (365 consecutive calendar days start a day too late), and a series
\* whose latest date lies 5 business days before today fails.
CoverageYearAmended ==
  coverCall.pc = "done" /\ coverCall.data # <<>> =>
    LET latest == Latest(coverCall.data) IN
    /\ Len(coverCall.data) = 365 /\ latest = today
         /\ coverCall.min_from_date = today - 365 =>
           coverCall.out = (Earliest(coverCall.data) <= today - 365)
    /\ latest # BadDate
         /\ Cardinality({d \in latest..(today - 1) : d % 7 \notin {5, 6}}) = 5 =>
           coverCall.out = FALSE

\* C6 witness: 365 business-day points ending today pass
CoverageYearSeen ==
  /\ coverCall.pc = "done"
  /\ coverCall.shape.kind = "business"
  /\ Len(coverCall.data) = 365
  /\ Latest(coverCall.data) = today
  /\ coverCall.min_from_date = today - 365
  /\ coverCall.out = TRUE

----------------------------------------------------------------------------
(* Properties of the orchestrator *)

\* the loop body is at work on the current symbol, or has just ended for it
Loaded == pc \notin {"idle", "start", "exit"}

\* the coverage policy: at least 200 points, from a year ago at the latest,
\* to at most one business day ago
PolicyMet(data, today_) ==
  /\ data # <<>>
  /\ Len(data) >= 200
  /\ Earliest(data) <= today_ - 365
  /\ Fresh(data, today_)

\* C7: when the series on disk satisfies the coverage policy the symbol ends
\* in skipped-sufficient, no adapter is invoked for it and its file is not
\* written.
SufficientSkipsFetch ==
  Loaded /\ before.exists /\ PolicyMet(before.data, today) =>
    /\ pc = "end"
    /\ status = "skipped-sufficient"
    /\ calls = <<>>
    /\ ~wrote
    /\ disk[Sym] = before

\* C7 witness: the second symbol skipped for its sufficient coverage, after
\* the first symbol's file was written
SufficientSeen ==
  /\ pc = "end"
  /\ idx = 2
  /\ status = "skipped-sufficient"
  /\ before.exists
  /\ disk[Tickers[1].sym].data # <<>>
  /\ Len(disk[Tickers[1].sym].data) < 200

\* whether main may ask the adapter a for the symbol at all
Applicable(a, sym, market) ==
  CASE a = "yahoo_worker" -> env.use_worker
    [] a = "yahoo" -> TRUE
    [] a = "finnhub" -> env.token /\ market \notin {"CRYPTO", "FX", "COM", "IDX"}
                          /\ sym # "600519.SS"
    [] a = "akshare" -> market = "CN" \/ sym = "600519.SS"
    [] a = "alpha" -> env.av_key /\ market \notin {"CRYPTO", "FX", "COM", "IDX"}
    [] a = "stooq" -> market \notin {"CRYPTO", "FX", "COM", "IDX"}

Priority(a) ==
  CASE a = "yahoo_worker" -> 1
    [] a = "yahoo" -> 2
    [] a = "finnhub" -> 3
    [] a = "akshare" -> 4
    [] a = "alpha" -> 5
    [] a = "stooq" -> 6

\* C8: adapters are attempted in the order proxy worker, direct providers
\* (Yahoo, Finnhub), CN provider, keyed provider (Alpha Vantage), free
\* provider (Stooq): when an adapter is attempted, every adapter before it in
\* that order was attempted earlier without yielding data, or is inapplicable
\* to the symbol.
AdaptersInPriorityOrder ==
  Loaded =>
    \A j \in 1..Len(calls) :
      /\ \A i \in 1..(j - 1) : Priority(calls[i].adapter) < Priority(calls[j].adapter)
      /\ \A b \in {"yahoo_worker", "yahoo", "finnhub", "akshare", "alpha", "stooq"} :
           Priority(b) < Priority(calls[j].adapter) =>
             \/ \E i \in 1..(j - 1) : calls[i].adapter = b /\ calls[i].result # "data"
             \/ ~Applicable(b, Sym, Market)

\* C8 witness: the free provider attempted for the US symbol after the four
\* adapters before it, the CN provider being inapplicable
PriorityOrderSeen ==
  /\ Loaded
  /\ Market = "US"
  /\ Len(calls) = 5
  /\ calls[5].adapter = "stooq"

\* the records of a series
Records(data) == {data[i] : i \in 1..Len(data)}

\* C9: after an adapter has returned a non-empty series no other adapter is
\* invoked for the symbol; the symbol ends written, the written series holds
\* every point of that adapter's series, with the old points of the other
\* dates only, and the recorded source is that adapter.
FirstDataWins ==
  Loaded =>
    /\ \A i \in 1..(Len(calls) - 1) : calls[i].result # "data"
    /\ calls # <<>> /\ calls[Len(calls)].result = "data" =>
         LET a == calls[Len(calls)].adapter
             got == AdapterData(variant, a, today)
         IN /\ fresh = got
            /\ source = a
            /\ pc = "end" =>
                 /\ status = "written"
                 /\ Records(got) \subseteq Records(disk[Sym].data)
                 /\ \A rec \in Records(disk[Sym].data) \ Records(got) :
                      /\ rec.date \notin DatesOf(got)
                      /\ rec.date \in DatesOf(existing)

\* C9 witness: the first two adapters return nothing, the third returns a
\* series, and the symbol is written from it over an older file
ThirdAdapterSeen ==
  /\ pc = "end"
  /\ Len(calls) = 3
  /\ calls[1].result = "empty"
  /\ calls[2].result = "empty"
  /\ calls[3].result = "data"
  /\ status = "written"
  /\ source = calls[3].adapter
  /\ Len(disk[Sym].data) = 3

\* coverage was insufficient, no adapter returned data, and there is an
\* existing series
NoDataButExisting ==
  /\ pc = "end"
  /\ status \notin {"skipped-sufficient", "failed"}
  /\ \A i \in 1..Len(calls) : calls[i].result # "data"
  /\ existing # <<>>

\* C10 as stated: with insufficient coverage, no data from any adapter and an
\* existing series, the file is left untouched and the symbol ends in
\* skipped-no-data.
NoDataKeepsArtifact ==
  NoDataButExisting =>
    /\ ~wrote
    /\ disk[Sym] = before
    /\ status = "skipped-no-data"

\* C10 amended: in that case the file is rewritten with the existing series
\* merged with nothing, that is its usable records, one per date, in
\* ascending order, and the symbol ends in written.
NoDataRewritesExisting ==
  NoDataButExisting =>
    LET out == disk[Sym].data IN
      /\ wrote
      /\ status = "written"
      /\ disk[Sym].exists
      /\ \A i \in 1..Len(out) : \A j \in 1..Len(out) :
           i < j => out[i].date < out[j].date
      /\ DatesOf(out) = UsableDates(variant, existing)
      /\ \A i \in 1..Len(out) :
           out[i] = Stored(variant, existing[LastUsable(variant, existing, out[i].date)])

\* C10 witness: no adapter had data for a symbol with an existing series and
\* the rewrite dropped a record from its file
RewriteSeen ==
  /\ NoDataButExisting
  /\ calls # <<>>
  /\ wrote
  /\ Len(disk[Sym].data) < Len(before.data)

\* no adapter gave data for the current symbol, which had no file
NoDataNoFile ==
  /\ pc = "end"
  /\ ~before.exists
  /\ calls # <<>>
  /\ \A i \in 1..Len(calls) : calls[i].result # "data"

\* C11: when no adapter returns data for a symbol that has no file, no file
\* is created for it and the symbol ends in skipped-no-data; the loop has
\* then dealt with every symbol up to this one, goes on to the end of the
\* list and main returns having processed every symbol.
NoDataNoFileContinues ==
  /\ [](NoDataNoFile =>
          /\ status = "skipped-no-data"
          /\ ~wrote
          /\ ~disk[Sym].exists
          /\ processed = idx)
  /\ [](pc = "exit" => processed = Len(Tickers) /\ idx = Len(Tickers))
  /\ NoDataNoFile ~> (pc = "exit")

\* C11 witness: the first symbol got no data and no file, and the last
\* symbol of the list was then written from an adapter's series
NoDataThenWrittenSeen ==
  /\ pc = "end"
  /\ idx = Len(Tickers)
  /\ status = "written"
  /\ source # ""
  /\ ~disk[Tickers[1].sym].exists

\* the adapters that apply to the current symbol
ApplicableNow ==
  {a \in {"yahoo_worker", "yahoo", "finnhub", "akshare", "alpha", "stooq"} :
     Applicable(a, Sym, Market)}

\* a step in which an adapter is called and answers with one of rs
CallAnswered(rs) ==
  /\ Len(calls') = Len(calls) + 1
  /\ calls'[Len(calls')].result \in rs

\* C12: a call of an adapter that raises leaves main exactly where the same
\* call returning an empty series leaves it: at the next block, with fresh
\* still empty, the source, the status, the symbol and the disk as they were;
\* when no adapter gave data every applicable adapter has been called, and a
\* symbol for which an adapter raised still ends written or skipped-no-data.
AdapterRaiseIsNoData ==
  /\ [][CallAnswered({"raise", "empty"}) =>
          /\ pc' = NextStage(pc)
          /\ fresh' = <<>>
          /\ source' = source
          /\ status' = status
          /\ idx' = idx
          /\ disk' = disk
          /\ processed' = processed]_vars
  /\ [](pc \in {"finish", "write", "end"}
          /\ (\A i \in 1..Len(calls) : calls[i].result # "data")
          /\ status \notin {"skipped-sufficient", "failed"}
          => {calls[i].adapter : i \in 1..Len(calls)} = ApplicableNow)
  /\ [](pc = "end" /\ (\E i \in 1..Len(calls) : calls[i].result = "raise")
          => status \in {"written", "skipped-no-data"})

\* C12 witness: the first adapter called raised, a later one returned a
\* series and the symbol was written from it
RaiseThenDataSeen ==
  /\ pc = "end"
  /\ Len(calls) >= 3
  /\ calls[1].result = "raise"
  /\ calls[Len(calls)].result = "data"
  /\ source = calls[Len(calls)].adapter
  /\ status = "written"

----------------------------------------------------------------------------
(* Properties of the adapters' retry loops *)

\* a step in which a request is answered 429 right after the previous
\* attempt on the same host was answered 429
Again429 ==
  /\ adapterCall.pc = "request"
  /\ adapterCall.attempt > 1
  /\ adapterCall.last = "429"
  /\ adapterCall'.requests = adapterCall.requests + 1
  /\ adapterCall'.last = "429"

\* a step in which the first attempt on a host is answered 429 right after
\* the last attempt on the previous host was answered 429
Again429NextHost ==
  /\ adapterCall.pc = "request"
  /\ adapterCall.attempt = 1
  /\ adapterCall.last = "429"
  /\ adapterCall'.requests = adapterCall.requests + 1
  /\ adapterCall'.last = "429"

\* the number of requests of a call is at most hosts x attempts, and a call
\* answered 429 throughout makes exactly that many and then gives up
RetriesBounded ==
  /\ adapterCall.adapter = "yahoo" =>
        /\ adapterCall.requests <= YahooHosts * YahooAttempts
        /\ adapterCall.pc = "done" /\ adapterCall.all429 =>
              /\ adapterCall.requests = YahooHosts * YahooAttempts
              /\ adapterCall.out = "none"
  /\ adapterCall.adapter = "legacy" =>
        /\ adapterCall.requests <= LegacyHosts * LegacyAttempts
        /\ adapterCall.pc = "done" /\ adapterCall.all429 =>
              /\ adapterCall.requests = LegacyHosts * LegacyAttempts
              /\ adapterCall.out = "raise"

\* C14 as stated: under 429 the Yahoo adapters make a bounded number of
\* requests and give up, and the sleep after a 429 never decreases from one
\* attempt to the next and is capped.
BackoffNeverDecreases ==
  /\ []RetriesBounded
  /\ [](adapterCall.last = "429" => adapterCall.slept <= Seconds(63))
  /\ [][Again429 => adapterCall'.slept >= adapterCall.slept]_vars

\* C14, amended: under 429 the Yahoo adapters make at most hosts x attempts
\* requests (exactly that many when every answer is 429) and give up, with
\* no data from fetch_daily_yahoo and an error from fetch_symbol; the sleep
\* after a 429 is at most 63 s (6.75 s in fetch_symbol); from one attempt
\* to the next on a host it grows up to the fourth attempt and later drops
\* by at most the 2 s spread of the jitter; on the next host it starts low
\* again.
BackoffJitterBounded ==
  /\ []RetriesBounded
  /\ [](adapterCall.last = "429" =>
          adapterCall.slept <= (IF adapterCall.adapter = "legacy"
                                THEN 27 ELSE Seconds(63)))
  /\ [][Again429 =>
          /\ adapterCall'.slept >= adapterCall.slept - Seconds(2)
          /\ adapterCall.attempt <= 4 => adapterCall'.slept > adapterCall.slept
          /\ adapterCall.adapter = "legacy" =>
                adapterCall'.slept > adapterCall.slept]_vars
  /\ [][Again429NextHost => adapterCall'.slept < adapterCall.slept]_vars

\* C14 witness: fetch_daily_yahoo gave up after 128 requests answered 429
GaveUpAfter429Seen ==
  /\ adapterCall.adapter = "yahoo"
  /\ adapterCall.pc = "done"
  /\ adapterCall.all429
  /\ adapterCall.requests = 128
  /\ adapterCall.out = "none"

\* a step in which an adapter of scripts/history.py meets the first transient
\* failure of its call
FirstTransient ==
  /\ adapterCall.adapter \in {"yahoo", "yahoo_worker", "finnhub"}
  /\ adapterCall.pc = "request"
  /\ adapterCall.failed = 0
  /\ adapterCall'.failed = 1

----------------------------------------------------------------------------
(* Properties of the proxy adapter within main *)

\* a step of main in which fetch_daily_worker is called
WorkerCalled ==
  /\ Len(calls') = Len(calls) + 1
  /\ calls'[Len(calls')].adapter = "yahoo_worker"

\* C16: when the proxy answers 404 fetch_daily_worker returns the empty
\* series, when it answers another status outside 2xx fetch_daily_worker
\* raises, and either way main goes on to the next block with fresh still
\* empty and nothing else changed, so that the adapters that follow are
\* called until one gives data.
Worker404IsNoData ==
  /\ [][WorkerCalled =>
          LET c == calls'[Len(calls')] IN
            /\ c.resp = "404" => c.result = "empty"
            /\ c.resp \in {"403", "429", "503"} => c.result = "raise"
            /\ c.resp \in {"404", "403", "429", "503"} =>
                 /\ pc' = NextStage(pc)
                 /\ fresh' = <<>>
                 /\ source' = source
                 /\ status' = status
                 /\ idx' = idx
                 /\ disk' = disk]_vars
  /\ [](/\ pc \in {"finish", "write", "end"}
         /\ Len(calls) >= 1
         /\ calls[1].adapter = "yahoo_worker"
         /\ calls[1].resp \in {"404", "403", "429", "503"}
         => /\ ApplicableNow # {"yahoo_worker"} => Len(calls) >= 2
            /\ calls[Len(calls)].result # "data" =>
                 {calls[i].adapter : i \in 1..Len(calls)} = ApplicableNow)

\* C16 witness: the proxy answered 404, the next adapter was called and the
\* symbol was written from a later adapter's series
Worker404ThenNextSeen ==
  /\ pc = "end"
  /\ Len(calls) >= 2
  /\ calls[1].adapter = "yahoo_worker"
  /\ calls[1].resp = "404"
  /\ calls[1].result = "empty"
  /\ calls[Len(calls)].result = "data"
  /\ status = "written"

----------------------------------------------------------------------------
(* Properties of the write of a symbol's file *)

\* the file holding the complete merged series of the current symbol
MergedFile ==
  [exists |-> TRUE, data |-> merge_history(variant, existing, fresh)]

\* C17 as stated: the file of a symbol only ever changes to the complete
\* merged series, in one step, and when the process is stopped in the
\* middle of a symbol for which data was fetched the file holds the
\* complete previous series or the complete merged series.
WriteIsAtomicReplace ==
  /\ [][disk' # disk => disk'[Sym] = MergedFile]_vars
  /\ [](pc = "stopped" /\ fresh # <<>> =>
          disk[Sym] = before \/ disk[Sym] = MergedFile)

----------------------------------------------------------------------------
(* Properties of the pacing of main *)

\* C18 as stated: the first provider request made for a symbol comes after
\* main slept for the per-symbol delay, or is the first request of the run:
\* no provider was asked since that sleep or since main started.
PolitenessSleepBetweenSymbols ==
  [][calls = <<>> /\ calls' # <<>> => rested]_vars

----------------------------------------------------------------------------
(* Properties of the quote snapshotter *)

\* C19 as stated: a symbol that once had a non-null last in the persisted
\* mapping has a non-null last in every later persisted mapping.
QuotesNeverErased ==
  \A s \in everQuoted : load_previous(quotes)[s].last # None

\* C20: when a run is over, every symbol it asked a provider for, got
\* nothing for and had a previous value for has in the persisted mapping
\* exactly the last and the as_of it had before the run, whether the run
\* wrote the files or left them alone.
FailedFetchKeepsPrevious ==
  qrun.pc = "done" =>
    \A s \in qrun.kept :
      /\ qrun.prev[s].last # None
      /\ load_previous(quotes)[s].last = qrun.prev[s].last
      /\ load_previous(quotes)[s].as_of = qrun.prev[s].as_of

\* C20 witness: a run got nothing for one symbol that had a previous value,
\* a new quote for another, and wrote the files
KeptWhileOthersChangedSeen ==
  /\ qrun.pc = "done"
  /\ qrun.exit = "wrote"
  /\ qrun.kept # {}
  /\ \E s \in QSymbols \ qrun.kept :
       /\ quotes.out.map[s].last # None
       /\ quotes.out.map[s] # qrun.prev[s]

\* the markets of the tickers of data/tickers.json
ListedMarkets == {quotes.tickers[i].market : i \in 1..Len(quotes.tickers)}

\* C21: in a run a provider is asked only for listed symbols of the markets
\* main found open, the crypto market being open whenever a crypto ticker is
\* listed; a run that finds no market open ends at once, having asked for
\* nothing and leaving both files as they were.
QueriesOnlyOpenMarkets ==
  /\ [](\A s \in qrun.asked :
          /\ MarketOf(s) \in qrun.open
          /\ \E i \in 1..Len(quotes.tickers) : quotes.tickers[i].sym = s)
  /\ [](qrun.pc # "idle" /\ "CRYPTO" \in ListedMarkets => "CRYPTO" \in qrun.open)
  /\ [](qrun.pc # "idle" /\ qrun.open = {} =>
          /\ qrun.pc = "done"
          /\ qrun.asked = {}
          /\ qrun.exit \in {"return", "abort"})
  /\ [][qrun'.n = qrun.n + 1 /\ qrun'.open = {} => quotes' = quotes]_vars

\* C21 witness: a run that found the US market closed and the crypto market
\* open ended having asked for the crypto ticker only
ClosedMarketNotAskedSeen ==
  /\ qrun.pc = "done"
  /\ qrun.open = {"CRYPTO"}
  /\ qrun.asked = {"BTC-USD"}
  /\ qrun.prev["AAPL"].last # None

\* the symbols for which the run fetched a quote that differs from the entry
\* loaded for them
FreshAndDifferent ==
  {s \in qrun.asked \ qrun.kept :
     qrun.out[s].last # None /\ qrun.out[s] # qrun.prev[s]}

\* C22 as stated: a run that found a market open writes the files exactly
\* when a value changed or there was no file before it.
WrittenWhenChangedOrNoPrior ==
  qrun.pc = "done" /\ qrun.symbols # <<>> =>
    (qrun.exit = "wrote" <=>
       \/ FreshAndDifferent # {}
       \/ ~quotes.out.exists /\ ~quotes.public.exists)

\* C22, amended: a run writes the files exactly when it fetched, for some
\* symbol, a quote that differs from the entry loaded for it, a missing
\* entry differing from every quote; the files change in no other step; a
\* run that writes nothing returns when data/quotes.json exists and aborts
\* when it does not, so a run without any file writes only if it fetched a
\* quote.
WrittenIffChanged ==
  /\ [](qrun.pc = "done" =>
          /\ qrun.exit = "wrote" <=> FreshAndDifferent # {}
          /\ qrun.exit = "wrote" =>
               /\ quotes.out = [exists |-> TRUE, map |-> qrun.out]
               /\ quotes.public = quotes.out
          /\ qrun.exit # "wrote" /\ qrun.symbols # <<>> =>
               qrun.exit = (IF qrun.had_prev THEN "return" ELSE "abort")
          /\ qrun.prev = EmptyQuotes =>
               (qrun.exit = "wrote" <=>
                  \E s \in qrun.asked : qrun.out[s].last # None))
  /\ [][quotes' # quotes => qrun'.pc = "done" /\ qrun'.exit = "wrote"]_vars

\* C22 witness: with data/quotes.json in place a run fetched a quote equal
\* to the entry it had and wrote nothing
UnchangedRunNoWriteSeen ==
  /\ qrun.pc = "done"
  /\ qrun.had_prev
  /\ qrun.asked \ qrun.kept # {}
  /\ \A s \in qrun.asked : qrun.out[s] = qrun.prev[s] /\ qrun.out[s].last # None
  /\ qrun.exit = "return"

\* C23 as stated: a run aborts only when it is fully empty; a run that finds
\* a previous output, or ends with an entry for at least one symbol, does
\* not abort.
AbortsOnlyWhenFullyEmpty ==
  qrun.pc = "done" /\ qrun.exit = "abort" =>
    /\ ~quotes.out.exists /\ ~quotes.public.exists
    /\ \A s \in QSymbols : qrun.out[s].last = None

\* C24 as stated: a symbol that ended written has a file that satisfies the
\* coverage policy, so the run that follows at once would end it
\* skipped-sufficient.
WrittenMeetsCoverage ==
  pc = "end" /\ status = "written" =>
    LET loaded == load_existing(disk[Sym]) IN
      ~SortRaises(loaded) /\ Sufficient(loaded, today)

----------------------------------------------------------------------------
(* The table stock_market_history and its loaders:                         *)
(* scripts/load_history_json_to_db.py, scripts/sync_history_supabase.py    *)

MaxLoads == 3         \* loads made into the table

\* the files of public/history a load finds
SinkFiles(today_) == {NoFile, StaleCleanFile(today_), StaleDirtyFile(today_)}

Row(sym, d, v) == [symbol |-> sym, record_date |-> d, record_value |-> v]
Key(row) == <<row.symbol, row.record_date>>

\* load_history_json_to_db: for every file of the folder,
\* values = [(symbol, item["date"], item["close"]) for item in data]
RECURSIVE FolderValues(_, _)
FolderValues(files, k) ==
  IF k > Len(Tickers) THEN <<>>
  ELSE LET sym == Tickers[k].sym
           f == files[sym]
       IN (IF f.exists
           THEN [i \in 1..Len(f.data) |-> Row(sym, f.data[i].date, f.data[i].close)]
           ELSE <<>>)
          \o FolderValues(files, k + 1)

\* a unique constraint on (symbol, record_date) rejects the rows
UniqueViolation(keyed, rows) ==
  keyed /\ \E i, j \in 1..Len(rows) : i # j /\ Key(rows[i]) = Key(rows[j])

\* INSERT INTO stock_market_history(symbol, record_date, record_value) VALUES
Insert(rows, values) == rows \o values

\* upsert(batch, on_conflict='symbol, record_date'): the row of a key of the
\* batch takes the values of the batch, the other records are inserted
RECURSIVE Upsert(_, _)
Upsert(rows, batch) ==
  IF batch = <<>> THEN rows
  ELSE LET r == Head(batch)
           hit == {i \in 1..Len(rows) : Key(rows[i]) = Key(r)}
       IN Upsert(IF hit = {} THEN Append(rows, r)
                 ELSE [i \in 1..Len(rows) |-> IF i \in hit THEN r ELSE rows[i]],
                 Tail(batch))

\* the value last handed to the table for every key
Submitted(latest, values) ==
  LET new == {values[i] : i \in 1..Len(values)} IN
    {r \in latest : \A n \in new : Key(n) # Key(r)} \cup new

SinkFrame ==
  UNCHANGED <<variant, today, mergeCall, candleCall, coverCall, runVars,
              adapterCall, quotes, qrun, everQuoted, checkRun, batchCall>>

\* a run of load_history_json_to_db.py: every file is inserted, conn.commit()
\* stands after the loop, and an exception of execute_values ends the script
\* before it
LoadJson ==
  /\ db.pc = "ready"
  /\ db.loads < MaxLoads
  /\ LET values == FolderValues(disk, 1)
         all == Insert(db.rows, values)
         raised == UniqueViolation(db.keyed, all)
     IN db' = [db EXCEPT !.rows = IF raised THEN db.rows ELSE all,
                         !.raised = raised,
                         !.loads = db.loads + 1,
                         !.latest = Submitted(db.latest, values)]
  /\ SinkFrame

\* a run of sync_history_supabase.py: the records of prepare_history_records
\* are upserted; without a unique constraint on the two columns the upsert
\* is rejected and main prints "Batch Upload Error"
SyncSupabase ==
  /\ db.pc = "ready"
  /\ db.loads < MaxLoads
  /\ \E sym \in Symbols, v \in Vals :
       LET batch == << Row(sym, today - 2, Num(v)) >> IN
         db' = [db EXCEPT !.rows = IF db.keyed THEN Upsert(db.rows, batch)
                                   ELSE db.rows,
                          !.raised = ~db.keyed,
                          !.loads = db.loads + 1,
                          !.latest = Submitted(db.latest, batch)]
  /\ SinkFrame

InitSink ==
  /\ NoAdapterRun
  /\ NoQuotesRun
  /\ variant = "close"
  /\ today = TodayBase
  /\ mergeCall = NoMergeCall
  /\ candleCall = NoCandleCall
  /\ coverCall = NoCoverCall
  /\ env = [use_worker |-> FALSE, token |-> FALSE, av_key |-> FALSE]
  /\ disk \in [Symbols -> SinkFiles(today)]
  /\ idx = 0
  /\ processed = 0
  /\ pc = "idle"
  /\ existing = <<>>
  /\ fresh = <<>>
  /\ source = ""
  /\ status = "none"
  /\ calls = <<>>
  /\ wrote = FALSE
  /\ before = NoFile
  /\ rested = TRUE
  /\ \E k \in BOOLEAN : db = [NoLoad EXCEPT !.keyed = k, !.pc = "ready"]
  /\ checkRun = NoCheckRun
  /\ batchCall = NoBatchCall

NextSink == LoadJson \/ SyncSupabase

SpecSink == InitSink /\ [][NextSink]_vars

\* the rows the table holds for the key of r
RowsOf(r) == {i \in 1..Len(db.rows) : Key(db.rows[i]) = Key(r)}

\* C26: in a table keyed by (symbol, record_date), after any number of loads
\* no load was rejected and every key handed to the table has exactly one
\* row, which holds the value handed to it last.
OneRowPerKeyLatestValue ==
  db.keyed /\ db.loads > 0 =>
    /\ ~db.raised
    /\ \A r \in db.latest :
         /\ Cardinality(RowsOf(r)) = 1
         /\ \A i \in RowsOf(r) : db.rows[i].record_value = r.record_value

----------------------------------------------------------------------------
(* scripts/check_history.py, run before scripts/history.py *)

MIN_YEARS == 1

\* sorted(set(iter_symbols()))
SortedSymbols == << "600519.SS", "AAPL", "EURUSD" >>

\* main: cutoff = today - timedelta(days=365 * MIN_YEARS)
check_cutoff(today_) == today_ - YEAR_DAYS * MIN_YEARS

CheckFrame ==
  UNCHANGED <<variant, today, mergeCall, candleCall, coverCall, runVars,
              adapterCall, quotes, qrun, everQuoted, db, batchCall>>

\* existing = load_existing(symbol); if not coverage_ok(existing, cutoff):
\* missing.append(symbol). The KeyError of coverage_ok's sort is not caught:
\* the interpreter prints the traceback and exits with status 1
CheckSymbol ==
  /\ checkRun.pc = "loop"
  /\ checkRun.i <= Len(SortedSymbols)
  /\ LET symbol == SortedSymbols[checkRun.i]
         loaded == load_existing(disk[symbol])
     IN IF SortRaises(loaded)
        THEN checkRun' = [checkRun EXCEPT !.pc = "raised", !.exit = 1]
        ELSE checkRun' = [checkRun EXCEPT
               !.i = checkRun.i + 1,
               !.missing = IF coverage_ok(loaded, check_cutoff(today), today)
                           THEN checkRun.missing
                           ELSE Append(checkRun.missing, symbol)]
  /\ CheckFrame

\* if missing: print(",".join(missing)); return 0
CheckEnd ==
  /\ checkRun.pc = "loop"
  /\ checkRun.i > Len(SortedSymbols)
  /\ checkRun' = [checkRun EXCEPT !.printed = checkRun.missing, !.exit = 0,
                                  !.pc = "done"]
  /\ CheckFrame

\* check_history.py is started on the files history.py is about to find; the
\* environment of the run has the proxy and the keys, or none of them
InitCheck ==
  /\ variant = "close"
  /\ NoAdapterRun
  /\ NoQuotesRun
  /\ today = TodayBase
  /\ mergeCall = NoMergeCall
  /\ candleCall = NoCandleCall
  /\ coverCall = NoCoverCall
  /\ \E b \in BOOLEAN : env = [use_worker |-> b, token |-> b, av_key |-> b]
  /\ disk \in [Symbols -> Files(today)]
  /\ idx = 1
  /\ processed = 0
  /\ pc = "start"
  /\ existing = <<>>
  /\ fresh = <<>>
  /\ source = ""
  /\ status = "none"
  /\ calls = <<>>
  /\ wrote = FALSE
  /\ before = NoFile
  /\ rested = TRUE
  /\ db = NoLoad
  /\ checkRun = [NoCheckRun EXCEPT !.i = 1, !.pc = "loop"]
  /\ batchCall = NoBatchCall

\* history.py runs once check_history.py has ended
Checked == checkRun.pc \in {"done", "raised"}

NextCheck ==
  \/ CheckSymbol
  \/ CheckEnd
  \/ Checked /\ LoadAndCheck
  \/ Checked /\ TryWorker
  \/ Checked /\ TryYahoo
  \/ Checked /\ TryFinnhub
  \/ Checked /\ TryAkshare
  \/ Checked /\ TryAlpha
  \/ Checked /\ TryStooq
  \/ Checked /\ Finish
  \/ Checked /\ Write
  \/ Checked /\ NextSymbol

SpecCheck == InitCheck /\ [][NextCheck]_vars

Reported == {checkRun.printed[i] : i \in 1..Len(checkRun.printed)}

----------------------------------------------------------------------------
(* scripts/history_ohlc.py: main's slicing of the ticker list into batches *)

MaxTickers == 4       \* tickers left by the --symbols filter

\* parse_args: --batch-size, default=80; main: "... else 80"
DEFAULT_BATCH_SIZE == 80

\* batch_size = args.batch_size if args.batch_size and args.batch_size > 0
\* else 80
batch_size_of(arg) == IF arg # 0 /\ arg > 0 THEN arg ELSE DEFAULT_BATCH_SIZE

\* seq[start:end] of Python: a negative bound counts from the end, and both
\* bounds are clipped to the sequence
PySlice(seq, start, end) ==
  LET n == Len(seq)
      clip(x) == IF x < 0 THEN Max2(n + x, 0) ELSE Min2(x, n)
  IN SubSeq(seq, clip(start) + 1, clip(end))

\* start = batch_index * batch_size; end = start + batch_size, one too far
batch_bounds_overlap(batch_index, size) ==
  [start |-> batch_index * size, end |-> batch_index * size + size + 1]

\* start = args.batch_index * batch_size; end = start + batch_size
batch_bounds(batch_index, size) ==
  [start |-> batch_index * size, end |-> batch_index * size + size]

\* if args.batch_index is not None: ... if start >= original_total:
\* tickers = [] else: tickers = tickers[start:end]
batch_of(tickers, batch_index, arg) ==
  IF batch_index = None THEN tickers
  ELSE LET b == batch_bounds(batch_index.v, batch_size_of(arg)) IN
         IF b.start >= Len(tickers) THEN <<>>
         ELSE PySlice(tickers, b.start, b.end)

\* main up to "total = len(tickers)"
SliceBatch ==
  /\ batchCall.pc = "args"
  /\ batchCall' = [batchCall EXCEPT
        !.out = batch_of(batchCall.tickers, batchCall.batch_index,
                         batchCall.batch_size),
        !.pc = "done"]
  /\ UNCHANGED <<variant, today, mergeCall, candleCall, coverCall, runVars,
                 adapterCall, quotes, qrun, everQuoted, db, checkRun>>

InitBatch ==
  /\ NoRun
  /\ NoAdapterRun
  /\ NoQuotesRun
  /\ variant = "ohlc"
  /\ today = 0
  /\ mergeCall = NoMergeCall
  /\ candleCall = NoCandleCall
  /\ coverCall = NoCoverCall
  /\ db = NoLoad
  /\ checkRun = NoCheckRun
  /\ \E t \in SeqsUpTo({"AAPL", "EURUSD"}, MaxTickers) :
       \E i \in {None} \cup {Num(k) : k \in (-2)..(MaxTickers + 1)} :
         \E arg \in (-1)..3 :
           batchCall = [tickers |-> t, batch_index |-> i, batch_size |-> arg,
                        out |-> <<>>, pc |-> "args"]

NextBatch == SliceBatch

SpecBatch == InitBatch /\ [][NextBatch]_vars

\* the positions of tickers the batch i takes, for the size b
BatchPositions(n, i, b) == {p \in 1..n : i * b < p /\ p <= (i + 1) * b}

RECURSIVE BatchesFrom(_, _, _)
BatchesFrom(tickers, arg, i) ==
  IF i > Len(tickers) THEN <<>>
  ELSE batch_of(tickers, Num(i), arg) \o BatchesFrom(tickers, arg, i + 1)

\* C28: for a size b, the batch i >= 0 is made of the tickers at the
\* positions i*b+1 .. (i+1)*b in their order; the batches 0, 1, 2, ... follow
\* each other without overlap and together are the whole list, every position
\* lying in exactly one of them; a batch whose start is at or after the end
\* of the list is empty. Without a batch index the list is left whole.
BatchesPartitionTickers ==
  batchCall.pc = "done" =>
    LET t == batchCall.tickers
        n == Len(t)
        b == IF batchCall.batch_size > 0 THEN batchCall.batch_size ELSE 80
        i == batchCall.batch_index
    IN /\ i = None => batchCall.out = t
       /\ i # None /\ i.v >= 0 =>
            /\ batchCall.out = SubSeq(t, i.v * b + 1, Min2((i.v + 1) * b, n))
            /\ Len(batchCall.out) = Cardinality(BatchPositions(n, i.v, b))
            /\ i.v * b >= n => batchCall.out = <<>>
       /\ i # None => batchCall.out = PySlice(t, i.v * b, (i.v + 1) * b)
       /\ BatchesFrom(t, batchCall.batch_size, 0) = t
       /\ \A p \in 1..n :
            Cardinality({k \in 0..n :
               p \in BatchPositions(n, k, b)
               /\ batch_of(t, Num(k), batchCall.batch_size)
                    = SubSeq(t, k * b + 1, Min2((k + 1) * b, n))}) = 1

\* C28 witness: the second batch of size 2 of four tickers is the third and
\* the fourth of them
SecondBatchSeen ==
  /\ batchCall.pc = "done"
  /\ Len(batchCall.tickers) = 4
  /\ batchCall.batch_index = Num(1)
  /\ batchCall.batch_size = 2
  /\ batchCall.out = SubSeq(batchCall.tickers, 3, 4)
  /\ batchCall.tickers[1] # batchCall.tickers[3]

----------------------------------------------------------------------------
(* build_candle: the values its last test compares *)

\* high_f and low_f after the defaults for a missing high or low, without
\* the two lines that force them around open and close
candle_range_unforced(open_val, high_val, low_val, close_val) ==
  LET close_f == safe_float(close_val).v
      open_0 == safe_float(open_val)
      high_0 == safe_float(high_val)
      low_0 == safe_float(low_val)
      open_f == IF open_0 = None THEN close_f ELSE open_0.v
  IN [high |-> IF high_0 = None THEN Max2(open_f, close_f) ELSE high_0.v,
      low |-> IF low_0 = None THEN Min2(open_f, close_f) ELSE low_0.v]

\* high_f and low_f when build_candle reaches "if low_f > high_f", for a
\* close that safe_float accepts: high_f = max(high_f, open_f, close_f),
\* low_f = min(low_f, open_f, close_f)
candle_range(open_val, high_val, low_val, close_val) ==
  LET close_f == safe_float(close_val).v
      open_0 == safe_float(open_val)
      high_0 == safe_float(high_val)
      low_0 == safe_float(low_val)
      open_f == IF open_0 = None THEN close_f ELSE open_0.v
      high_1 == IF high_0 = None THEN Max2(open_f, close_f) ELSE high_0.v
      low_1 == IF low_0 = None THEN Min2(open_f, close_f) ELSE low_0.v
  IN [high |-> Max2(high_1, Max2(open_f, close_f)),
      low |-> Min2(low_1, Min2(open_f, close_f))]

\* C30: when build_candle reaches its last test, low_f <= high_f holds: the
\* swap is not taken, and the candle returned carries the forced high and low
\* as they are.
SwapNeverTaken ==
  candleCall.pc = "done" /\ candleCall.out # Rejected =>
    LET r == candle_range(candleCall.arg.open, candleCall.arg.high,
                          candleCall.arg.low, candleCall.arg.close)
    IN /\ r.low <= r.high
       /\ candleCall.out.high = Num(r.high)
       /\ candleCall.out.low = Num(r.low)

\* C30 witness: a candle built from a low above the high, both numbers
InvertedInputSeen ==
  /\ candleCall.pc = "done"
  /\ candleCall.out # Rejected
  /\ candleCall.arg.low.k = "num"
  /\ candleCall.arg.high.k = "num"
  /\ candleCall.arg.low.v > candleCall.arg.high.v
  /\ candleCall.out.low.v < candleCall.out.high.v

----------------------------------------------------------------------------
(* Runs of the orchestrator one after the other, on the files the run       *)
(* before them left                                                         *)

MaxDays == 1          \* days that pass between the first run and the last

\* the script is started again, the same day or the day after
Rerun ==
  /\ pc = "exit"
  /\ \E d \in {today, today + 1} :
       /\ d <= TodayBase + MaxDays
       /\ today' = d
  /\ idx' = 1
  /\ processed' = 0
  /\ pc' = "start"
  /\ rested' = TRUE
  /\ UNCHANGED <<variant, mergeCall, candleCall, coverCall, auxVars, env, disk,
                 existing, fresh, source, status, calls, wrote, before>>

\* the first run finds one symbol without the coverage asked for; the proxy
\* and the two keys are all set or all unset
InitRerun ==
  /\ Init
  /\ env.token = env.use_worker
  /\ env.av_key = env.use_worker
  /\ \E s \in Symbols :
       /\ disk[s] # CoveringFile(today)
       /\ \A t \in Symbols \ {s} : disk[t] = CoveringFile(today)

NextRerun == Next \/ Rerun

SpecRerun == InitRerun /\ [][NextRerun]_vars

\* C29: every date that has a valid record in the file of a symbol when a
\* run loads it has a valid record in the file when the run is done with the
\* symbol, in every run of a sequence of runs, and the file does not change
\* between the runs.
DatesNeverShrink ==
  /\ [](pc = "end" =>
          /\ UsableDates(variant, before.data) \subseteq DatesOf(disk[Sym].data)
          /\ UsableDates(variant, before.data)
               \subseteq UsableDates(variant, disk[Sym].data))
  /\ [][(pc = "end" \/ pc = "exit") => disk' = disk]_vars

\* C29 witness: in a run of the day after the first one, a symbol is written
\* and its file keeps a date of the earlier run that lies before the two
\* days the adapter returned
OlderDatesKeptSeen ==
  /\ pc = "end"
  /\ today = TodayBase + 1
  /\ status = "written"
  /\ fresh # <<>>
  /\ TodayBase - 2 \in UsableDates(variant, before.data)
  /\ TodayBase - 2 \notin DatesOf(fresh)
  /\ TodayBase - 2 \in DatesOf(disk[Sym].data)
  /\ TodayBase \in DatesOf(disk[Sym].data)
  /\ before.data # StaleDirtyFile(TodayBase).data

============================================================================
